---- MODULE Spec2Model ----
(***************************************************************************)
(* Decision-tree induction and prediction of cliffdoyle/machineLearning.   *)
(*                                                                         *)
(* Three complete variants of the tree builder live in the repository and  *)
(* are modelled side by side, selected by the variable `variant`:          *)
(*   "hacker2"  src/hacker2/main.go  lines 359-885 (typed cells, Threshold)*)
(*   "part000"  src/unnamed/part_000 lines 1-483   (typed cells, BuildTree)*)
(*   "hacker"   src/hacker/main.go   lines 312-681 (string cells only)     *)
(* Two further programs hold selection functions only:                     *)
(*   "typed"      src/hacker/main.go lines 1-310 (midpoint threshold)      *)
(*   "loadingcsv" src/loadingcsv/main.go         (struct rows, strings)    *)
(*                                                                         *)
(* float64 arithmetic is modelled exactly: an entropy is kept as the       *)
(* integer  n * H * 1000  built from a table of log2 values that respects  *)
(* log2(a*b) = log2(a) + log2(b), so that "== 0" and ">" on gains decide   *)
(* as they do over the reals.  A Go map range visits keys in an            *)
(* unspecified order; where the result depends on that order the model     *)
(* takes every order's result.                                             *)
(***************************************************************************)
EXTENDS Integers, Sequences, FiniteSets, TLC

\* Bound of the model: the largest number of data rows of a training CSV.
MaxRows == 3

-----------------------------------------------------------------------------
(* Training CSV files: a header and raw string cells.                      *)

\* The headers of the training files considered; the last column is the
\* label (in the last file a label column of numbers, and no attribute).
Headers ==
    { <<"A", "N", "Label">>, <<"N", "A", "Label">>,
      <<"D", "A", "Label">>, <<"Label">>, <<"N">> }

\* The raw cell texts a column of the given name holds, in a fixed order.
ColVals(col) ==
    CASE col = "A" -> <<"a", "b">>
      [] col = "B" -> <<"x", "y">>
      [] col = "N" -> <<"1", "2", "3">>
      [] col = "V" -> <<"1", "2", "3", "10">>
      [] col = "D" -> <<"2024-01-01", "2024-01-02">>
      [] col = "Class" -> <<"A", "B">>
      [] OTHER     -> <<"Yes", "No">>

RECURSIVE RowCount(_, _)
\* Number of distinct raw rows over columns j..Len(header).
RowCount(header, j) ==
    IF j > Len(header) THEN 1
    ELSE Len(ColVals(header[j])) * RowCount(header, j + 1)

\* The r-th raw row (0-based, mixed radix over the columns' values).
RawRow(header, r) ==
    [j \in 1..Len(header) |->
        ColVals(header[j])[((r \div RowCount(header, j + 1))
                              % Len(ColVals(header[j]))) + 1]]

\* Row-index sequences of length 1..MaxRows, in non-decreasing order: the
\* functions modelled key their results by value, so a permutation of the
\* rows of a file changes none of them.
RowIndexSeqs(header) ==
    { s \in UNION { [1..n -> 0..(RowCount(header, 1) - 1)] : n \in 1..MaxRows } :
        \A i \in 1..(Len(s) - 1) : s[i] <= s[i + 1] }

\* records[1:] of a CSV file.
RawData(header, idx) == [i \in 1..Len(idx) |-> RawRow(header, idx[i])]

-----------------------------------------------------------------------------
(* Parsing and type detection (LoadCsv).                                   *)

\* strconv.ParseFloat succeeds.
IsFloat(s) == s \in {"1", "2", "3", "10"}

\* strconv.ParseFloat: the value (float64 values here are whole numbers).
ParseFloat(s) ==
    CASE s = "1" -> 1 [] s = "2" -> 2 [] s = "3" -> 3 [] s = "10" -> 10 [] OTHER -> 0

\* parseDate succeeds (format "2006-01-02").
IsDate(s) == s \in {"2024-01-01", "2024-01-02"}

\* time.Time.Unix() of the parsed date.
DateUnix(s) ==
    CASE s = "2024-01-01" -> 1704067200
      [] s = "2024-01-02" -> 1704153600
      [] OTHER -> 0

\* Cell values: interface{} holding a string, a float64 or a time.Time.
StrCell(s)  == [t |-> "str",  s |-> s,  n |-> 0]
NumCell(n)  == [t |-> "num",  s |-> "", n |-> n]
TimeCell(s) == [t |-> "time", s |-> s,  n |-> DateUnix(s)]

\* detectColumnTypes for one column of the raw data.
detectColumnType(data, col) ==
    IF \A i \in 1..Len(data) : IsFloat(data[i][col]) THEN "numeric"
    ELSE IF \A i \in 1..Len(data) : IsDate(data[i][col]) THEN "date"
    ELSE "categorical"

\* The conversion LoadCsv applies to a cell of a column of type ct.
convertCell(val, ct) ==
    CASE ct = "numeric" -> NumCell(ParseFloat(val))
      [] ct = "date"    -> TimeCell(val)
      [] OTHER          -> StrCell(val)

\* LoadCsv: the dataset of the variant.  hacker2, part_000 and typed
\* convert every column (the label column included) by its detected type;
\* hacker and loadingcsv keep every cell a string.
LoadCsv(v, data) ==
    IF v \in {"hacker", "loadingcsv"}
    THEN [i \in 1..Len(data) |-> [j \in 1..Len(data[i]) |-> StrCell(data[i][j])]]
    ELSE [i \in 1..Len(data) |->
            [j \in 1..Len(data[i]) |->
                convertCell(data[i][j], detectColumnType(data, j))]]

-----------------------------------------------------------------------------
(* Impurity: class counts and entropy.                                     *)

\* The label cell of a row.
LabelCell(row) == row[Len(row)]

\* A float64 as fmt's %v and encoding/json write it (whole numbers here).
EncodeNumber(x) ==
    CASE x = 0 -> "0" [] x = 1 -> "1" [] x = 2 -> "2" [] x = 3 -> "3"
      [] x = 10 -> "10"
      [] x = 1704067200 -> "1704067200"
      [] x = 1704153600 -> "1704153600"
      [] OTHER -> "?"

\* The class a counted label is counted under: the string itself; typed
\* formats the cell with fmt.Sprintf("%v", cell).
LabelText(cell) ==
    CASE cell.t = "str" -> cell.s
      [] cell.t = "num" -> EncodeNumber(cell.n)
      [] OTHER          -> cell.s \o " 00:00:00 +0000 UTC"

\* Rows whose label is counted: hacker2 and part_000 skip a label that is
\* not a string; hacker, typed and loadingcsv count every row.
Counted(v, rows) ==
    { i \in 1..Len(rows) :
        Len(rows[i]) > 0
          /\ (v \in {"hacker", "typed", "loadingcsv"} \/ LabelCell(rows[i]).t = "str") }

\* Keys of the map CountClassOccurrences returns.
Classes(v, rows) == { LabelText(LabelCell(rows[i])) : i \in Counted(v, rows) }

\* CountClassOccurrences(rows)[c].
ClassCount(v, rows, c) ==
    Cardinality({ i \in Counted(v, rows) : LabelText(LabelCell(rows[i])) = c })

\* 1000 * log2(k) for k = 1..8, additive over products.
Log2Table == <<0, 1000, 1585, 2000, 2322, 2585, 2807, 3000>>

Log2(k) == Log2Table[k]

RECURSIVE SumOver(_, _)
\* Sum of f[x] over the finite set S.
SumOver(S, f) ==
    IF S = {} THEN 0
    ELSE LET x == CHOOSE y \in S : TRUE IN f[x] + SumOver(S \ {x}, f)

\* An entropy whose terms are count*log2(len), without the class's own
\* log2(count).
EntropyOfRowCount(v, rows) ==
    IF Len(rows) = 0 THEN 0
    ELSE SumOver(Classes(v, rows),
                 [c \in Classes(v, rows) |->
                    ClassCount(v, rows, c) * Log2(Len(rows))])

\* Entropy(rows), as Len(rows) * entropy * 1000: each class contributes
\* -p*log2(p) with p = count/len, that is count*(log2(len) - log2(count))/len.
\* hacker2 and part_000 return 0.0 for no rows before anything else; the
\* others range over the (then empty) map of probabilities.
Entropy(v, rows) ==
    IF Len(rows) = 0 /\ v \in {"hacker2", "part000"} THEN 0
    ELSE SumOver(Classes(v, rows),
                 [c \in Classes(v, rows) |->
                    ClassCount(v, rows, c)
                      * (Log2(Len(rows)) - Log2(ClassCount(v, rows, c)))])

-----------------------------------------------------------------------------
(* Splitter.                                                               *)

\* Position of the first column named attribute, 0 when there is none
\* (attrIndex == -1 in the code).
IndexOf(header, attribute) ==
    IF \E i \in 1..Len(header) : header[i] = attribute
    THEN CHOOSE i \in 1..Len(header) :
            header[i] = attribute /\ \A j \in 1..(i - 1) : header[j] # attribute
    ELSE 0

\* The rows of a dataset that satisfy a test, last row first.
RowsWhereReversed(rows, keep) == [i \in 1..Cardinality(keep) |->
    rows[CHOOSE k \in keep : Cardinality({m \in keep : m > k}) = i - 1]]

\* The rows of a dataset that satisfy a test, in order.
RowsWhere(rows, keep) == [i \in 1..Cardinality(keep) |->
    rows[CHOOSE k \in keep : Cardinality({m \in keep : m < k}) = i - 1]]

\* fmt.Sprintf("%.2f", x) for the float64 values of the model.
Fmt2f(x) ==
    CASE x = 0 -> "0.00" [] x = 1 -> "1.00" [] x = 2 -> "2.00" [] x = 3 -> "3.00"
      [] x = 10 -> "10.00"
      [] x = 1704067200 -> "1704067200.00"
      [] x = 1704153600 -> "1704153600.00"
      [] OTHER -> "?"

LeKey(t) == "<=" \o Fmt2f(t)
\* A key for the rows above the threshold that repeats the key of the rows
\* at or below it.
GtKeySameAsLe(t) == "<=" \o Fmt2f(t)

GtKey(t) == ">" \o Fmt2f(t)

\* The rows FindBestThreshold collects a value from: a float64 cell, and a
\* string cell that parses as a date (hacker2) or a time.Time cell (part_000).
ThresholdRows(v, rows, a) ==
    { i \in 1..Len(rows) :
        \/ rows[i][a].t = "num"
        \/ v = "hacker2" /\ rows[i][a].t = "str" /\ IsDate(rows[i][a].s)
        \/ v = "part000" /\ rows[i][a].t = "time" }

\* The value collected from a row of ThresholdRows.
ThresholdValue(row, a) ==
    IF row[a].t = "num" THEN row[a].n ELSE DateUnix(row[a].s)

\* sort.Float64s(values); values[len(values)/2]
Median(rows, from, a) ==
    LET k == (Cardinality(from) \div 2) + 1 IN
    ThresholdValue(rows[CHOOSE i \in from :
        /\ Cardinality({j \in from :
               ThresholdValue(rows[j], a) < ThresholdValue(rows[i], a)}) < k
        /\ Cardinality({j \in from :
               ThresholdValue(rows[j], a) <= ThresholdValue(rows[i], a)}) >= k], a)

\* The value the second loop of FindBestThreshold compares with the
\* threshold: hacker2 asserts float64 only (0 otherwise), part_000 also
\* converts a time.Time.
CompareValue(v, row, a) ==
    CASE row[a].t = "num" -> row[a].n
      [] row[a].t = "time" /\ v = "part000" -> row[a].n
      [] OTHER -> 0

\* FindBestThreshold(dataset, attrIndex): [panic, threshold, left, right].
\* hacker2 indexes the sorted values without checking that there is one;
\* part_000 returns (0, nil, nil) then.
FindBestThreshold(v, rows, a) ==
    LET from == ThresholdRows(v, rows, a) IN
    IF from = {}
    THEN [panic |-> (v = "hacker2"), threshold |-> 0, left |-> <<>>, right |-> <<>>]
    ELSE LET t == Median(rows, from, a) IN
         [panic |-> FALSE, threshold |-> t,
          left  |-> RowsWhere(rows, {i \in 1..Len(rows) : CompareValue(v, rows[i], a) <= t}),
          right |-> RowsWhere(rows, {i \in 1..Len(rows) : CompareValue(v, rows[i], a) > t})]

\* The float64 values typed's FindBestThreshold collects, sorted.
SortedValues(rows, a) ==
    LET from == { i \in 1..Len(rows) : rows[i][a].t = "num" } IN
    [k \in 1..Cardinality(from) |->
        rows[CHOOSE i \in from :
               Cardinality({ j \in from :
                   \/ rows[j][a].n < rows[i][a].n
                   \/ rows[j][a].n = rows[i][a].n /\ j < i }) = k - 1][a].n]

\* The two subsets EvaluateThreshold forms for a threshold given as its
\* double t2 (threshold = t2 / 2): a row is placed only if its cell is a
\* float64.
ThresholdSides(rows, a, t2) ==
    [left  |-> RowsWhere(rows, { i \in 1..Len(rows) :
                   rows[i][a].t = "num" /\ 2 * rows[i][a].n <= t2 }),
     right |-> RowsWhere(rows, { i \in 1..Len(rows) :
                   rows[i][a].t = "num" /\ 2 * rows[i][a].n > t2 })]

\* An evaluation that weighs the left subset alone.
EvaluateThresholdLeftOnly(rows, a, t2) ==
    IF Len(rows) = 0 THEN 0
    ELSE Entropy("typed", rows) - Entropy("typed", ThresholdSides(rows, a, t2).left)

\* EvaluateThreshold(dataset, attrIndex, threshold) of typed, as
\* Len(rows) * gain * 1000.
EvaluateThreshold(rows, a, t2) ==
    IF Len(rows) = 0 THEN 0
    ELSE Entropy("typed", rows)
           - (Entropy("typed", ThresholdSides(rows, a, t2).left)
              + Entropy("typed", ThresholdSides(rows, a, t2).right))

RECURSIVE BestMidpoint(_, _, _, _, _)
\* The loop of typed's FindBestThreshold from candidate i on; best = [gain,
\* t2] is the running best.
BestMidpoint(rows, a, values, i, best) ==
    IF i > Len(values) - 1 THEN best
    ELSE CHOOSE r \in
           { IF infoGain > best.gain
             THEN BestMidpoint(rows, a, values, i + 1,
                               [gain |-> infoGain, t2 |-> values[i] + values[i + 1]])
             ELSE BestMidpoint(rows, a, values, i + 1, best) :
             infoGain \in { EvaluateThreshold(rows, a, values[i] + values[i + 1]) } } : TRUE

\* FindBestThreshold(dataset, attrIndex) of typed: the double of the
\* threshold returned.  bestInfoGain starts at -1.0 and bestThreshold at 0.
FindBestThresholdMidpoint(rows, a) ==
    BestMidpoint(rows, a, SortedValues(rows, a), 1,
                 [gain |-> -(1000 * Len(rows)), t2 |-> 0]).t2

\* The categorical split: rows grouped by the string at the attribute (the
\* zero string for a cell that is no string).
SplitCategorical(rows, a) ==
    LET key(i) == IF rows[i][a].t = "str" THEN rows[i][a].s ELSE ""
        keys   == { key(i) : i \in 1..Len(rows) }
    IN [k \in keys |-> RowsWhere(rows, {i \in 1..Len(rows) : key(i) = k})]

\* The split of typed: rows grouped by fmt.Sprintf("%v", cell).
SplitByText(rows, a) ==
    [k \in { LabelText(rows[i][a]) : i \in 1..Len(rows) } |->
        RowsWhere(rows, {i \in 1..Len(rows) : LabelText(rows[i][a]) = k})]

\* The split when the attribute is no column of the header (index 0 here):
\* the empty map, returned before any row is read; loadingcsv, which
\* switches on the attribute's name, files every row under the key "".
SplitMissing(v, rows) ==
    IF v = "loadingcsv" /\ Len(rows) > 0 THEN "" :> rows ELSE <<>>

\* The split of SplitDataset for the attribute at index a (0: not found):
\* [panic, sub], sub the map from branch key to subset.  hacker2 and part_000
\* read dataset[0] to choose the kind of split; hacker and loadingcsv always
\* group by value, typed by the value's text.
SplitAt(v, rows, a) ==
    IF a = 0 THEN [panic |-> FALSE, sub |-> SplitMissing(v, rows)]
    ELSE IF v \in {"hacker", "loadingcsv"}
         THEN [panic |-> FALSE, sub |-> SplitCategorical(rows, a)]
    ELSE IF v = "typed" THEN [panic |-> FALSE, sub |-> SplitByText(rows, a)]
    ELSE IF Len(rows) = 0 THEN [panic |-> TRUE, sub |-> <<>>]
    ELSE IF rows[1][a].t = "str"
         THEN [panic |-> FALSE, sub |-> SplitCategorical(rows, a)]
    ELSE LET r == FindBestThreshold(v, rows, a) IN
         [panic |-> r.panic,
          sub |-> (LeKey(r.threshold) :> r.left) @@ (GtKey(r.threshold) :> r.right)]

\* SplitDataset(dataset, header, attribute).
SplitDataset(v, rows, header, attribute) ==
    IF IndexOf(header, attribute) = 0
    THEN [panic |-> FALSE, sub |-> <<>>]
    ELSE SplitAt(v, rows, IndexOf(header, attribute))

-----------------------------------------------------------------------------
(* Attribute selector.  A gain is kept as Len(rows) * gain * 1000 and a    *)
(* gain ratio as the fraction num/den of two such numbers (den > 0).       *)

\* A result the code holds in a local variable is bound here by "x \in {e}",
\* which evaluates e once; the value computed from it is then the one
\* element of a set.

\* InformationGain(dataset, header, attribute) for the attribute at index a:
\* [panic, val].  proportion * Entropy(subset) times Len(rows) is
\* Len(subset) * entropy(subset), which is Entropy(v, subset).  loadingcsv
\* has no early return for an empty dataset.
InformationGain(v, rows, a) ==
    IF Len(rows) = 0 /\ v # "loadingcsv" THEN [panic |-> FALSE, val |-> 0]
    ELSE CHOOSE r \in
           { IF splitted.panic THEN [panic |-> TRUE, val |-> 0]
             ELSE [panic |-> FALSE,
                   val |-> Entropy(v, rows)
                             - SumOver(DOMAIN splitted.sub,
                                       [k \in DOMAIN splitted.sub |->
                                           Entropy(v, splitted.sub[k])])] :
             splitted \in { SplitAt(v, rows, a) } } : TRUE

\* A split information that measures the subsets by their size alone, so
\* that subsets of one row each weigh nothing.
SplitInfoBySubsetSize(rows, sub) ==
    SumOver(DOMAIN sub,
            [k \in DOMAIN sub |-> Len(sub[k]) * Log2(Len(sub[k]))])

\* splitInfo of GainRatio, times Len(rows) * 1000: a subset of proportion
\* p > 0 contributes -p*log2(p).
SplitInfo(rows, sub) ==
    SumOver(DOMAIN sub,
            [k \in DOMAIN sub |->
                IF Len(sub[k]) > 0
                THEN Len(sub[k]) * (Log2(Len(rows)) - Log2(Len(sub[k])))
                ELSE 0])

\* GainRatio of loadingcsv: no early return for an empty dataset or for an
\* information gain of 0; the one test is splitInfo == 0.
GainRatioUnguarded(v, rows, a) ==
    CHOOSE r \in
      { IF splitInfo = 0 THEN [panic |-> FALSE, num |-> 0, den |-> 1]
        ELSE [panic |-> FALSE, num |-> InformationGain(v, rows, a).val,
              den |-> splitInfo] :
        splitInfo \in { SplitInfo(rows, SplitAt(v, rows, a).sub) } } : TRUE

\* A gain ratio that is always the quotient, with no test for zero.
GainRatioAlwaysDividing(v, rows, a) ==
    [panic |-> InformationGain(v, rows, a).panic,
     num |-> InformationGain(v, rows, a).val,
     den |-> SplitInfo(rows, SplitAt(v, rows, a).sub)]

\* GainRatio(dataset, header, attribute): [panic, num, den]; a return of the
\* constant 0 is 0/1, a quotient infoGain / splitInfo is num/den.
GainRatio(v, rows, a) ==
    IF v = "loadingcsv" THEN GainRatioUnguarded(v, rows, a)
    ELSE IF Len(rows) = 0 THEN [panic |-> FALSE, num |-> 0, den |-> 1]
    ELSE CHOOSE r \in
           { IF infoGain.panic THEN [panic |-> TRUE, num |-> 0, den |-> 1]
             ELSE IF infoGain.val = 0 THEN [panic |-> FALSE, num |-> 0, den |-> 1]
             ELSE CHOOSE q \in
                    { IF splitInfo = 0 THEN [panic |-> FALSE, num |-> 0, den |-> 1]
                      ELSE [panic |-> FALSE, num |-> infoGain.val, den |-> splitInfo] :
                      splitInfo \in { SplitInfo(rows, SplitAt(v, rows, a).sub) } } : TRUE :
             infoGain \in { InformationGain(v, rows, a) } } : TRUE

\* x > y for two fractions with positive denominators.
RatioGT(xn, xd, yn, yd) == xn * yd > yn * xd

\* A running best that starts from 0.0 in every variant.
InitialBestZero(v) == 0

\* The running best each variant starts from: -1.0 (hacker2), the int -1
\* (hacker), 0.0 (part_000).
InitialBest(v) == IF v = "part000" THEN 0 ELSE -1

\* The running best a variant keeps after taking a gain ratio: hacker2 and
\* part_000 keep the ratio, hacker keeps int(gainRatio), its integer part.
KeptBest(v, gr) ==
    IF v = "hacker" THEN [num |-> gr.num \div gr.den, den |-> 1]
    ELSE [num |-> gr.num, den |-> gr.den]

RECURSIVE BestFrom(_, _, _, _, _)
\* The loop of BestAttribute / BestAttributeByGainRatio from column i on,
\* best = [panic, attr, num, den] being the running best.
BestFrom(v, rows, header, i, best) ==
    IF i > Len(header) - 1 \/ best.panic THEN best
    ELSE CHOOSE r \in
           { IF gainRatio.panic
             THEN [best EXCEPT !.panic = TRUE]
             ELSE IF RatioGT(gainRatio.num, gainRatio.den, best.num, best.den)
                  THEN BestFrom(v, rows, header, i + 1,
                                [panic |-> FALSE, attr |-> header[i],
                                 num |-> KeptBest(v, gainRatio).num,
                                 den |-> KeptBest(v, gainRatio).den])
                  ELSE BestFrom(v, rows, header, i + 1, best) :
             gainRatio \in { GainRatio(v, rows, i) } } : TRUE

\* BestAttribute(dataset, header): [panic, attr, num, den]; attr "" when no
\* column was taken.
BestAttribute(v, rows, header) ==
    BestFrom(v, rows, header, 1,
             [panic |-> FALSE, attr |-> "", num |-> InitialBest(v), den |-> 1])

-----------------------------------------------------------------------------
(* Tree builder.  A tree is a function from paths (sequences of branch     *)
(* keys, <<>> the root) to nodes; a node's Keys are the keys of Children.  *)

LeafNode(class) ==
    [Attribute |-> "", Threshold |-> 0, Keys |-> {}, Class |-> class, IsLeaf |-> TRUE]

InternalNode(attr, threshold, keys) ==
    [Attribute |-> attr, Threshold |-> threshold, Keys |-> keys, Class |-> "",
     IsLeaf |-> FALSE]

\* A scan that ends on no class at all.
MostCommonNone(v, rows) == {""}

\* The classes a "count > maxCount" scan over the class counts can end on:
\* the map is ranged in an unspecified order, so any class of maximal
\* count; the empty string when no class was counted.
MostCommon(v, rows) ==
    IF Classes(v, rows) = {} THEN {""}
    ELSE { c \in Classes(v, rows) :
             \A d \in Classes(v, rows) : ClassCount(v, rows, d) <= ClassCount(v, rows, c) }

\* allSameClass(dataset) of part_000, for a non-empty dataset with string
\* labels.
allSameClass(rows) ==
    \A i \in 1..Len(rows) : LabelCell(rows[i]).s = LabelCell(rows[1]).s

\* The outcome of a call that panics, and the shape of every outcome:
\* kind is "panic", "leaf" or "node"; sub maps each branch key to the subset
\* the call recurses on; kids holds the leaves attached without recursion.
Panics == [kind |-> "panic", node |-> LeafNode(""), sub |-> <<>>, kids |-> <<>>]

Leaf(class) == [Panics EXCEPT !.kind = "leaf", !.node = LeafNode(class)]

Internal(attr, threshold, sub) ==
    [Panics EXCEPT !.kind = "node",
                   !.node = InternalNode(attr, threshold, DOMAIN sub),
                   !.sub = sub]

\* BuildDecisionTree of hacker2 and hacker from line "attrIndex := -1" on,
\* bestAttr being a column of the header.
SplitOn(v, rows, header, bestAttr) ==
    UNION
      { IF v = "hacker"
        THEN { Internal(bestAttr, 0, SplitAt(v, rows, attrIndex).sub) }
        ELSE IF Len(rows) = 0 THEN { Panics }
        ELSE IF rows[1][attrIndex].t = "str"
        THEN { Internal(bestAttr, 0, SplitAt(v, rows, attrIndex).sub) }
        ELSE { IF r.panic THEN Panics
               ELSE Internal(bestAttr, r.threshold,
                             (LeKey(r.threshold) :> r.left)
                                @@ (GtKey(r.threshold) :> r.right)) :
               r \in { FindBestThreshold(v, rows, attrIndex) } } :
        attrIndex \in { IndexOf(header, bestAttr) } }

\* A builder that lacks the "len(classCounts) == 1" return: the faulty
\* variant against which the pure-subset property is shown to bite.
BuildWithoutPureCheck(v, rows, header) ==
    UNION
      { IF best.panic THEN { Panics }
        ELSE IF best.attr = ""
        THEN { Leaf(c) : c \in MostCommon(v, rows) }
        ELSE SplitOn(v, rows, header, best.attr) :
        best \in { BestAttribute(v, rows, header) } }

\* One call of BuildDecisionTree of hacker2 and hacker: the outcomes it can
\* have before it recurses.
VisitBDT(v, rows, header) ==
    IF Cardinality(Classes(v, rows)) = 1
    THEN { Leaf(c) : c \in Classes(v, rows) }
    ELSE UNION
           { IF best.panic THEN { Panics }
             ELSE IF best.attr = ""
             THEN { Leaf(c) : c \in MostCommon(v, rows) }
             ELSE SplitOn(v, rows, header, best.attr) :
             best \in { BestAttribute(v, rows, header) } }

\* One call of BuildTree of part_000.  An empty subset gets a leaf with the
\* majority class of the caller's rows; the others are recursed on.  The
\* type assertions on the label panic for a label that is no string.
VisitBuildTree(v, rows, header) ==
    IF Len(rows) = 0 \/ \E i \in 1..Len(rows) : LabelCell(rows[i]).t # "str"
    THEN { Panics }
    ELSE IF allSameClass(rows)
    THEN { Leaf(LabelCell(rows[1]).s) }
    ELSE UNION
           { IF best.panic THEN { Panics }
             ELSE UNION
                    { IF subsets.panic THEN { Panics }
                      ELSE { [kind |-> "node",
                              node |-> InternalNode(best.attr, 0, DOMAIN subsets.sub),
                              sub  |-> [k \in { x \in DOMAIN subsets.sub :
                                                  Len(subsets.sub[x]) > 0 } |->
                                          subsets.sub[k]],
                              kids |-> kd] :
                             kd \in [{ x \in DOMAIN subsets.sub : Len(subsets.sub[x]) = 0 }
                                       -> { LeafNode(c) : c \in MostCommon(v, rows) }] } :
                      subsets \in { SplitDataset(v, rows, header, best.attr) } } :
             best \in { BestAttribute(v, rows, header) } }

\* The outcomes of one call of the variant's builder.
Visit(v, rows, header) ==
    IF v = "part000" THEN VisitBuildTree(v, rows, header)
    ELSE VisitBDT(v, rows, header)

-----------------------------------------------------------------------------
(* Persisted model: TrainModel's json.Encoder and LoadModel's Decoder.     *)

\* The float64 values a Threshold takes.
ThresholdValues == {0, 1, 2, 3, 10, 1704067200, 1704153600}

\* encoding/json writes a string with '<' and '>' escaped.
EscapeKey(k) ==
    IF \E t \in ThresholdValues : k = LeKey(t)
    THEN "\\u003c=" \o Fmt2f(CHOOSE t \in ThresholdValues : k = LeKey(t))
    ELSE IF \E t \in ThresholdValues : k = GtKey(t)
    THEN "\\u003e" \o Fmt2f(CHOOSE t \in ThresholdValues : k = GtKey(t))
    ELSE k

\* The decoder's reading of an escaped string.
UnescapeKey(e) ==
    IF \E t \in ThresholdValues : e = "\\u003c=" \o Fmt2f(t)
    THEN LeKey(CHOOSE t \in ThresholdValues : e = "\\u003c=" \o Fmt2f(t))
    ELSE IF \E t \in ThresholdValues : e = "\\u003e" \o Fmt2f(t)
    THEN GtKey(CHOOSE t \in ThresholdValues : e = "\\u003e" \o Fmt2f(t))
    ELSE e

\* The float64 the decoder reads back from a number.
DecodeNumber(s) == CHOOSE x \in ThresholdValues : EncodeNumber(x) = s

RECURSIVE Encode(_, _)
\* encoder.Encode(tree): the JSON object of the node at path.  A leaf's
\* Children is a nil map, written null; a map is written as an object
\* whose member names are the escaped keys.
Encode(tree, path) ==
    LET nd == tree[path] IN
    [Attribute |-> EscapeKey(nd.Attribute),
     Threshold |-> EncodeNumber(nd.Threshold),
     Children  |-> IF nd.IsLeaf THEN [null |-> TRUE, members |-> <<>>]
                   ELSE [null |-> FALSE,
                         members |-> [e \in { EscapeKey(k) : k \in nd.Keys } |->
                                        Encode(tree, Append(path,
                                            CHOOSE k \in nd.Keys : EscapeKey(k) = e))]],
     Class     |-> EscapeKey(nd.Class),
     IsLeaf    |-> nd.IsLeaf]

\* The node a JSON object decodes to.
DecodeNode(obj) ==
    [Attribute |-> UnescapeKey(obj.Attribute),
     Threshold |-> DecodeNumber(obj.Threshold),
     Keys      |-> { UnescapeKey(e) : e \in DOMAIN obj.Children.members },
     Class     |-> UnescapeKey(obj.Class),
     IsLeaf    |-> obj.IsLeaf]

RECURSIVE Decode(_, _)
\* decoder.Decode(&tree): the tree (paths to nodes) of a JSON object, the
\* object sitting at path.
Decode(obj, path) ==
    LET kids == DOMAIN obj.Children.members
        below == [e \in kids |-> Decode(obj.Children.members[e],
                                        Append(path, UnescapeKey(e)))]
        paths == UNION { DOMAIN below[e] : e \in kids }
    IN [q \in {path} \cup paths |->
          IF q = path THEN DecodeNode(obj)
          ELSE below[CHOOSE e \in kids : q \in DOMAIN below[e]][q]]

-----------------------------------------------------------------------------
(* Predictor.                                                              *)

\* The classes a "count > maxCount" scan over vote counts can end on, votes
\* mapping each child key to the class it votes for.
Winners(votes) ==
    LET cnt(c) == Cardinality({ k \in DOMAIN votes : votes[k] = c })
        cls    == { votes[k] : k \in DOMAIN votes }
    IN IF cls = {} THEN {""}
       ELSE { c \in cls : \A d \in cls : cnt(d) <= cnt(c) }

RECURSIVE FindMostCommonClass(_, _)
\* FindMostCommonClass(node) of hacker2 for the node at path: every class
\* it can return.  Each child casts one vote: its Class when a leaf, its own
\* FindMostCommonClass otherwise.
FindMostCommonClass(tree, path) ==
    LET nd == tree[path]
        choice(k) == IF tree[Append(path, k)].IsLeaf
                     THEN { tree[Append(path, k)].Class }
                     ELSE FindMostCommonClass(tree, Append(path, k))
    IN UNION { Winners(votes) :
                 votes \in { f \in [nd.Keys -> UNION { choice(k) : k \in nd.Keys }] :
                               \A k \in nd.Keys : f[k] \in choice(k) } }

RECURSIVE PredictIgnoringAbsence(_, _, _, _)
\* A Predict that lacks the "if !exists" return, the lookup of an absent
\* attribute giving the zero string: the faulty variant against which the
\* "Unknown" property is shown to bite.
PredictIgnoringAbsence(v, tree, path, instance) ==
    LET nd == tree[path]
        value == IF nd.Attribute \in DOMAIN instance THEN instance[nd.Attribute] ELSE ""
    IN IF nd.IsLeaf THEN { nd.Class }
       ELSE IF value \in nd.Keys
       THEN PredictIgnoringAbsence(v, tree, Append(path, value), instance)
       ELSE IF v = "hacker" THEN { "Unknown" }
       ELSE FindMostCommonClass(tree, path)

RECURSIVE Predict(_, _, _, _)
\* Predict(node, instance) for the node at path: every label it can return.
\* On a value that is no key of Children hacker2 falls back to
\* FindMostCommonClass, hacker returns "Unknown".
Predict(v, tree, path, instance) ==
    LET nd == tree[path] IN
    IF nd.IsLeaf THEN { nd.Class }
    ELSE IF nd.Attribute \notin DOMAIN instance THEN { "Unknown" }
    ELSE IF instance[nd.Attribute] \in nd.Keys
    THEN Predict(v, tree, Append(path, instance[nd.Attribute]), instance)
    ELSE IF v = "hacker" THEN { "Unknown" }
    ELSE FindMostCommonClass(tree, path)

-----------------------------------------------------------------------------
(* The program as a state machine: a training file is loaded, the          *)
(* selection functions are applied to it, a tree is built call by call,    *)
(* saved, loaded again, and used to predict.                               *)

VARIABLES
    variant,    \* which of the three programs runs
    header,     \* header of the training file
    dataset,    \* the rows LoadCsv returned
    phase,      \* "idle", "building", "built", "saved", "loaded", "panic", "overflow"
    stack,      \* the calls of the builder not yet made, the next one first
    tree,       \* the nodes built so far: path -> node
    subsetAt,   \* the rows each built node was built from: path -> rows
    file,       \* the model file TrainModel wrote
    model,      \* the tree LoadModel returned
    out         \* the last call of Split, BestAttribute or Predict

vars == <<variant, header, dataset, phase, stack, tree, subsetAt, file, model, out>>

Variants == {"hacker2", "part000", "hacker"}

\* Frames deeper than this stand for a recursion that never returns (the
\* Go runtime ends it with a stack overflow).
MaxDepth == MaxRows + 2

NoOut == [op |-> "none"]
NoFile == [null |-> TRUE]

\* The attribute columns of a header.
Attributes(h) == { h[i] : i \in 1..(Len(h) - 1) }

\* Values a prediction record can give an attribute: the texts of the
\* training files and, for a categorical column, one never seen.
RecordVals(col) ==
    CASE col = "A" -> {"a", "b", "c"}
      [] col = "N" -> {"1", "2", "3"}
      [] OTHER     -> {"2024-01-01", "2024-01-02"}

\* The prediction records: maps from some of the attribute names to values.
Records(h) ==
    UNION { { f \in [S -> UNION { RecordVals(c) : c \in S }] :
                \A c \in S : f[c] \in RecordVals(c) } : S \in SUBSET Attributes(h) }

Init ==
    /\ variant \in Variants
    /\ header \in Headers
    /\ dataset \in { LoadCsv(variant, RawData(header, idx)) : idx \in RowIndexSeqs(header) }
    /\ phase = "idle"
    /\ stack = <<>>
    /\ tree = <<>>
    /\ subsetAt = <<>>
    /\ file = NoFile
    /\ model = <<>>
    /\ out = NoOut

\* SplitDataset(dataset, header, attr) on the loaded rows.
CallSplit ==
    /\ phase = "idle"
    /\ \E attr \in Attributes(header) \cup {"Z"} :
         out' = [op |-> "Split", attr |-> attr,
                 res |-> SplitDataset(variant, dataset, header, attr)]
    /\ UNCHANGED <<variant, header, dataset, phase, stack, tree, subsetAt, file, model>>

\* BestAttribute(dataset, header) on the loaded rows.
CallBestAttribute ==
    /\ phase = "idle"
    /\ out' = [op |-> "Best", res |-> BestAttribute(variant, dataset, header)]
    /\ UNCHANGED <<variant, header, dataset, phase, stack, tree, subsetAt, file, model>>

\* BuildDecisionTree(dataset, header) / BuildTree(dataset, header) is called.
StartBuild ==
    /\ phase = "idle"
    /\ phase' = "building"
    /\ stack' = << [path |-> <<>>, rows |-> dataset, caller |-> dataset] >>
    /\ out' = NoOut
    /\ UNCHANGED <<variant, header, dataset, tree, subsetAt, file, model>>

RECURSIVE KeySeq(_)
\* The keys of a set in some order.
KeySeq(S) ==
    IF S = {} THEN <<>>
    ELSE LET k == CHOOSE x \in S : TRUE IN <<k>> \o KeySeq(S \ {k})

\* The recursive calls of a node, in the order they are made: the code
\* builds the <= child before the > child; a map is ranged in any order,
\* and the children are built independently of one another.
ChildOrder(o) ==
    IF LeKey(o.node.Threshold) \in DOMAIN o.sub
    THEN <<LeKey(o.node.Threshold), GtKey(o.node.Threshold)>>
    ELSE KeySeq(DOMAIN o.sub)

\* The frames of the recursive calls outcome o makes from frame f.
ChildFrames(f, o) ==
    [i \in 1..Len(ChildOrder(o)) |->
        [path |-> Append(f.path, ChildOrder(o)[i]),
         rows |-> o.sub[ChildOrder(o)[i]],
         caller |-> f.rows]]

\* The phase once the stack is s: the outermost call has returned when no
\* call is left.
After(s) == IF s = <<>> THEN "built" ELSE "building"

\* The next call returns a leaf.
BuildLeaf ==
    /\ phase = "building"
    /\ Len(Head(stack).path) < MaxDepth
    /\ \E o \in Visit(variant, Head(stack).rows, header) :
         /\ o.kind = "leaf"
         /\ tree' = (Head(stack).path :> o.node) @@ tree
         /\ subsetAt' = (Head(stack).path :> Head(stack).rows) @@ subsetAt
         /\ stack' = Tail(stack)
         /\ phase' = After(Tail(stack))
    /\ UNCHANGED <<variant, header, dataset, file, model, out>>

\* The next call makes an internal node and recurses on its subsets.
BuildNode ==
    /\ phase = "building"
    /\ Len(Head(stack).path) < MaxDepth
    /\ \E o \in Visit(variant, Head(stack).rows, header) :
         /\ o.kind = "node"
         /\ tree' = (Head(stack).path :> o.node)
                      @@ [q \in { Append(Head(stack).path, k) : k \in DOMAIN o.kids } |->
                            o.kids[q[Len(q)]]]
                      @@ tree
         /\ subsetAt' = (Head(stack).path :> Head(stack).rows)
                      @@ [q \in { Append(Head(stack).path, k) : k \in DOMAIN o.kids } |-> <<>>]
                      @@ subsetAt
         /\ stack' = ChildFrames(Head(stack), o) \o Tail(stack)
         /\ phase' = After(stack')
    /\ UNCHANGED <<variant, header, dataset, file, model, out>>

\* The next call panics (index out of range, failed type assertion).
BuildPanic ==
    /\ phase = "building"
    /\ Len(Head(stack).path) < MaxDepth
    /\ \E o \in Visit(variant, Head(stack).rows, header) : o.kind = "panic"
    /\ phase' = "panic"
    /\ UNCHANGED <<variant, header, dataset, stack, tree, subsetAt, file, model, out>>

\* The recursion has gone deeper than any tree over the rows can be.
BuildOverflow ==
    /\ phase = "building"
    /\ Len(Head(stack).path) >= MaxDepth
    /\ phase' = "overflow"
    /\ UNCHANGED <<variant, header, dataset, stack, tree, subsetAt, file, model, out>>

\* TrainModel writes the tree (hacker2 and hacker).
SaveModel ==
    /\ phase = "built"
    /\ variant # "part000"
    /\ file' = Encode(tree, <<>>)
    /\ phase' = "saved"
    /\ UNCHANGED <<variant, header, dataset, stack, tree, subsetAt, model, out>>

\* LoadModel reads it back.
LoadModel ==
    /\ phase = "saved"
    /\ model' = Decode(file, <<>>)
    /\ phase' = "loaded"
    /\ UNCHANGED <<variant, header, dataset, stack, tree, subsetAt, file, out>>

\* Predict on a record: once with the tree in memory, once with the tree
\* read back from the file.
CallPredict ==
    /\ phase = "loaded"
    /\ \E rec \in Records(header) :
         \E r1 \in Predict(variant, tree, <<>>, rec) :
            \E r2 \in Predict(variant, model, <<>>, rec) :
               out' = [op |-> "Predict", rec |-> rec, result |-> r1, reloaded |-> r2]
    /\ UNCHANGED <<variant, header, dataset, phase, stack, tree, subsetAt, file, model>>

Next ==
    \/ CallSplit
    \/ CallBestAttribute
    \/ StartBuild
    \/ BuildLeaf
    \/ BuildNode
    \/ BuildPanic
    \/ BuildOverflow
    \/ SaveModel
    \/ LoadModel
    \/ CallPredict

Spec == Init /\ [][Next]_vars

-----------------------------------------------------------------------------
(* hacker2 trained on a file of categorical attributes only, and its tree  *)
(* applied to the rows it was built from.                                  *)

\* Bound of these runs: the largest number of rows of the training file.
MaxTrainRows == 4

\* Two categorical attributes and the label; a categorical attribute and a
\* label column of numbers.
TrainHeaders == { <<"A", "B", "Label">>, <<"A", "N">> }

\* Row-index sequences of length 1..MaxTrainRows, in non-decreasing order.
TrainIndexSeqs(h) ==
    { s \in UNION { [1..n -> 0..(RowCount(h, 1) - 1)] : n \in 1..MaxTrainRows } :
        \A i \in 1..(Len(s) - 1) : s[i] <= s[i + 1] }

InitTrain ==
    /\ variant = "hacker2"
    /\ header \in TrainHeaders
    /\ dataset \in { LoadCsv(variant, RawData(header, idx)) : idx \in TrainIndexSeqs(header) }
    /\ phase = "idle"
    /\ stack = <<>>
    /\ tree = <<>>
    /\ subsetAt = <<>>
    /\ file = NoFile
    /\ model = <<>>
    /\ out = NoOut

\* The record PredictFromModel makes of a row: every column name mapped to
\* fmt.Sprintf("%v", value).
InstanceOf(h, row) ==
    [c \in { h[j] : j \in 1..Len(h) } |-> LabelText(row[IndexOf(h, c)])]

\* Predict(tree, instance) for a row of the training file.
PredictTrainingRow ==
    /\ phase = "built"
    /\ \E i \in 1..Len(dataset) :
         \E r \in Predict(variant, tree, <<>>, InstanceOf(header, dataset[i])) :
            out' = [op |-> "PredictRow", row |-> dataset[i], result |-> r]
    /\ UNCHANGED <<variant, header, dataset, phase, stack, tree, subsetAt, file, model>>

\* No call of the builder panics on such a file (every call has rows, and
\* no attribute column is numeric or a date), so BuildPanic is never
\* enabled here.
NextTrain ==
    \/ StartBuild
    \/ BuildLeaf
    \/ BuildNode
    \/ BuildOverflow
    \/ PredictTrainingRow

SpecTrain == InitTrain /\ [][NextTrain]_vars

-----------------------------------------------------------------------------
(* The command line of hacker2 and hacker: main() with its five flags.     *)

\* Values of the flag -c, and of a file or column flag ("" when not given).
CliCommands == {"", "train", "predict", "bogus"}
FlagValues == {"", "f"}

\* What TrainModel or PredictFromModel does once called: it returns nil,
\* it returns an error (LoadCsv cannot read the input), or the builder
\* panics.
RunOutcomes == {"ok", "error", "panic"}

\* The run of TrainModel / PredictFromModel as main sees it: the input file
\* is opened first; the output file is created only on the way to a nil
\* return; main prints a returned error and returns.
RunCommand(outcome) ==
    [printed |-> CASE outcome = "ok" -> "done"
                   [] outcome = "error" -> "Error"
                   [] OTHER -> "panic",
     exit    |-> IF outcome = "panic" THEN 2 ELSE 0,
     read    |-> TRUE,
     wrote   |-> (outcome = "ok")]

\* A return from main after a message: the process ends with status 0.
PrintAndReturn(msg) == [printed |-> msg, exit |-> 0, read |-> FALSE, wrote |-> FALSE]

\* main(): [printed, exit, read, wrote] for the flags given.
main(command, inputFile, targetCol, modelFile, outputFile, outcome) ==
    CASE command = "train" ->
           IF inputFile = "" \/ targetCol = "" \/ outputFile = ""
           THEN PrintAndReturn("Usage: train")
           ELSE RunCommand(outcome)
      [] command = "predict" ->
           IF inputFile = "" \/ modelFile = "" \/ outputFile = ""
           THEN PrintAndReturn("Usage: predict")
           ELSE RunCommand(outcome)
      [] OTHER -> PrintAndReturn("Invalid command")

InitCli ==
    /\ variant \in {"hacker2", "hacker"}
    /\ header = <<"Label">>
    /\ dataset = <<>>
    /\ phase = "idle"
    /\ stack = <<>>
    /\ tree = <<>>
    /\ subsetAt = <<>>
    /\ file = NoFile
    /\ model = <<>>
    /\ out = NoOut

\* The program is run with some flags.
RunMain ==
    /\ \E c \in CliCommands, i, t, m, o \in FlagValues, outcome \in RunOutcomes :
         out' = [op |-> "main", c |-> c, i |-> i, t |-> t, m |-> m, o |-> o,
                 res |-> main(c, i, t, m, o, outcome)]
    /\ UNCHANGED <<variant, header, dataset, phase, stack, tree, subsetAt, file, model>>

NextCli == RunMain

SpecCli == InitCli /\ [][NextCli]_vars

-----------------------------------------------------------------------------
(* The selection functions called on their own: one attribute column and   *)
(* the label column, any rows up to MaxCallRows, and the empty dataset.    *)

\* Bound of these calls: the largest number of rows passed.
MaxCallRows == 4

\* The programs whose functions are called.
CallVariants == {"hacker2", "part000", "typed", "loadingcsv"}

\* A numeric, a date and a categorical column, each with the label column,
\* and a file whose label column holds numbers.
CallHeaders ==
    { <<"V", "Class">>, <<"D", "Class">>, <<"A", "Class">>, <<"A", "N">> }

\* Row-index sequences of length 1..MaxCallRows, in non-decreasing order.
CallIndexSeqs(h) ==
    { s \in UNION { [1..n -> 0..(RowCount(h, 1) - 1)] : n \in 1..MaxCallRows } :
        \A i \in 1..(Len(s) - 1) : s[i] <= s[i + 1] }

InitCalls ==
    /\ variant \in CallVariants
    /\ header \in CallHeaders
    /\ dataset \in { LoadCsv(variant, RawData(header, idx)) : idx \in CallIndexSeqs(header) }
    /\ phase = "idle"
    /\ stack = <<>>
    /\ tree = <<>>
    /\ subsetAt = <<>>
    /\ file = NoFile
    /\ model = <<>>
    /\ out = NoOut

\* CountClassOccurrences(rows): the map from class to count.
CallCountClassOccurrences ==
    /\ \E rows \in {dataset, <<>>} :
         out' = [op |-> "Counts", rows |-> rows,
                 counts |-> [c \in Classes(variant, rows) |-> ClassCount(variant, rows, c)]]
    /\ UNCHANGED <<variant, header, dataset, phase, stack, tree, subsetAt, file, model>>

\* Entropy(rows) on the loaded rows or on no rows.
CallEntropy ==
    /\ \E rows \in {dataset, <<>>} :
         out' = [op |-> "Entropy", rows |-> rows, val |-> Entropy(variant, rows)]
    /\ UNCHANGED <<variant, header, dataset, phase, stack, tree, subsetAt, file, model>>

\* The attributes a call can name: the column (index 1) and, where the
\* function takes a name, a name the header does not hold (index 0).
CallAttributes(v) == IF v = "part000" THEN {1} ELSE {0, 1}

\* InformationGain(rows, header, attribute).
CallInformationGain ==
    /\ \E rows \in {dataset, <<>>}, a \in CallAttributes(variant) :
         out' = [op |-> "InformationGain", rows |-> rows, a |-> a,
                 res |-> InformationGain(variant, rows, a)]
    /\ UNCHANGED <<variant, header, dataset, phase, stack, tree, subsetAt, file, model>>

\* GainRatio(rows, header, attribute).
CallGainRatio ==
    /\ \E rows \in {dataset, <<>>}, a \in CallAttributes(variant) :
         out' = [op |-> "GainRatio", rows |-> rows, a |-> a,
                 res |-> GainRatio(variant, rows, a)]
    /\ UNCHANGED <<variant, header, dataset, phase, stack, tree, subsetAt, file, model>>

\* FindBestThreshold(rows, 0) of hacker2 and part_000.
CallFindBestThreshold ==
    /\ variant \in {"hacker2", "part000"}
    /\ \E rows \in {dataset, <<>>} :
         \E r \in { FindBestThreshold(variant, rows, 1) } :
           out' = [op |-> "Threshold", rows |-> rows, panic |-> r.panic,
                   threshold |-> r.threshold, left |-> r.left, right |-> r.right]
    /\ UNCHANGED <<variant, header, dataset, phase, stack, tree, subsetAt, file, model>>

\* FindBestThreshold(rows, 0) of typed, which returns the threshold alone
\* (recorded as its double t2).
CallFindBestThresholdMidpoint ==
    /\ variant = "typed"
    /\ \E rows \in {dataset, <<>>} :
         out' = [op |-> "Midpoint", rows |-> rows,
                 t2 |-> FindBestThresholdMidpoint(rows, 1)]
    /\ UNCHANGED <<variant, header, dataset, phase, stack, tree, subsetAt, file, model>>

NextCalls ==
    \/ CallCountClassOccurrences
    \/ CallEntropy
    \/ CallInformationGain
    \/ CallGainRatio
    \/ CallFindBestThreshold
    \/ CallFindBestThresholdMidpoint

SpecCalls == InitCalls /\ [][NextCalls]_vars

-----------------------------------------------------------------------------
(* Properties.  root is the node the builder returned; a node q lies below *)
(* a node p when p is a proper prefix of q.                                *)

\* C1: every recursive call of the builder (hacker2, part_000) is made on a
\* non-empty subset strictly smaller than its caller's, so the recursion is
\* never deeper than the number of training rows and the build terminates.
C1_RecursionShrinks ==
    variant \in {"hacker2", "part000"} =>
        /\ phase # "overflow"
        /\ \A i \in 1..Len(stack) :
             /\ Len(stack[i].path) < Len(dataset)
             /\ stack[i].path # <<>> =>
                  /\ Len(stack[i].rows) > 0
                  /\ Len(stack[i].rows) < Len(stack[i].caller)

\* C2: for a subset with more than one label in which no attribute has a
\* gain ratio above 0, the builder (hacker2, part_000) returns a Leaf
\* without children whose Class has the maximal count in the subset.
C2_NoGainIsMajorityLeaf ==
    variant \in {"hacker2", "part000"} =>
        \A p \in DOMAIN tree :
            LET rows == subsetAt[p] IN
            ( /\ Cardinality({ LabelCell(rows[i]) : i \in 1..Len(rows) }) > 1
              /\ \A i \in 1..(Len(header) - 1) :
                    /\ ~GainRatio(variant, rows, i).panic
                    /\ GainRatio(variant, rows, i).num = 0 )
            => /\ tree[p].IsLeaf
               /\ tree[p].Keys = {}
               /\ \A c \in Classes(variant, rows) :
                     ClassCount(variant, rows, c) <= ClassCount(variant, rows, tree[p].Class)

C4_PredictComparesWithThreshold ==
    ( /\ out.op = "Predict"
      /\ variant = "hacker2"
      /\ ~tree[<<>>].IsLeaf
      /\ LeKey(tree[<<>>].Threshold) \in tree[<<>>].Keys
      /\ tree[<<>>].Attribute \in DOMAIN out.rec
      /\ IsFloat(out.rec[tree[<<>>].Attribute]) )
    => LET T == tree[<<>>].Threshold
           child == IF ParseFloat(out.rec[tree[<<>>].Attribute]) <= T
                    THEN <<LeKey(T)>> ELSE <<GtKey(T)>>
       IN tree[child].IsLeaf => out.result = tree[child].Class

\* C5: when the record's value for the attribute of an Internal node is no
\* branch key of the node, Predict (hacker2) returns a class most frequent
\* among all the leaves below the node, each leaf counted once; stated for
\* the root.
C5_FallbackCountsEveryLeaf ==
    ( /\ out.op = "Predict"
      /\ variant = "hacker2"
      /\ ~tree[<<>>].IsLeaf
      /\ tree[<<>>].Attribute \in DOMAIN out.rec
      /\ out.rec[tree[<<>>].Attribute] \notin tree[<<>>].Keys )
    => LET leaves == { q \in DOMAIN tree : tree[q].IsLeaf }
           cnt(c) == Cardinality({ q \in leaves : tree[q].Class = c })
       IN /\ \E q \in leaves : tree[q].Class = out.result
          /\ \A q \in leaves : cnt(tree[q].Class) <= cnt(out.result)

\* C6: Predict (hacker2, hacker) on a Leaf returns the leaf's Class whatever
\* the record holds, and on an Internal node whose Attribute is no key of
\* the record it returns "Unknown"; for every node of the loaded tree and
\* every record, and for the call made.
C6_LeafClassOrUnknown ==
    phase = "loaded" =>
        /\ \A p \in DOMAIN tree : \A rec \in Records(header) :
              /\ tree[p].IsLeaf => Predict(variant, tree, p, rec) = { tree[p].Class }
              /\ (~tree[p].IsLeaf /\ tree[p].Attribute \notin DOMAIN rec)
                    => Predict(variant, tree, p, rec) = { "Unknown" }
        /\ out.op = "Predict" =>
              /\ tree[<<>>].IsLeaf => out.result = tree[<<>>].Class
              /\ (~tree[<<>>].IsLeaf /\ tree[<<>>].Attribute \notin DOMAIN out.rec)
                    => out.result = "Unknown"

\* Predict was called on an Internal root with a record that holds another
\* attribute but not the root's, and returned "Unknown".
C6_Witness ==
    /\ out.op = "Predict"
    /\ ~tree[<<>>].IsLeaf
    /\ out.rec # <<>>
    /\ tree[<<>>].Attribute \notin DOMAIN out.rec
    /\ out.result = "Unknown"

\* C7: Predict on the tree read back from the model file returns the label
\* Predict returns on the tree in memory, for every built tree and record.
C7_RoundTripSameLabel ==
    out.op = "Predict" => out.reloaded = out.result

\* C8: for a non-empty dataset and an attribute of the header (categorical,
\* numeric or temporal) SplitDataset (hacker2, part_000) returns subsets
\* whose sizes sum to the number of rows, every row in exactly one subset.
C8_SplitPartitionsRows ==
    ( /\ out.op = "Split"
      /\ variant \in {"hacker2", "part000"}
      /\ out.attr \in Attributes(header) )
    => /\ ~out.res.panic
       /\ SumOver(DOMAIN out.res.sub,
                  [k \in DOMAIN out.res.sub |-> Len(out.res.sub[k])]) = Len(dataset)
       /\ \A i \in 1..Len(dataset) :
             SumOver(DOMAIN out.res.sub,
                     [k \in DOMAIN out.res.sub |->
                         Cardinality({ j \in 1..Len(out.res.sub[k]) :
                                         out.res.sub[k][j] = dataset[i] })])
               = Cardinality({ m \in 1..Len(dataset) : dataset[m] = dataset[i] })

\* C9: BestAttribute returns the attribute of maximal gain ratio among the
\* columns before the label, the earliest of them when several share it.
C9_BestIsFirstMaximum ==
    ( /\ out.op = "Best"
      /\ ~out.res.panic
      /\ Len(header) > 1 )
    => LET gr(i) == GainRatio(variant, dataset, i)
           n == Len(header) - 1
       IN \E i \in 1..n :
             /\ out.res.attr = header[i]
             /\ \A j \in 1..n : ~RatioGT(gr(j).num, gr(j).den, gr(i).num, gr(i).den)
             /\ \A j \in 1..(i - 1) : RatioGT(gr(i).num, gr(i).den, gr(j).num, gr(j).den)

\* C10: an attribute whose split of the subset leaves all rows in a single
\* subset is never returned by BestAttribute (hacker2), is never the
\* Attribute of an Internal node, and does not abort the build.
C10_SingleSubsetNeverChosen ==
    variant = "hacker2" =>
        LET single(rows, attr) ==
                LET sp == SplitDataset(variant, rows, header, attr) IN
                /\ ~sp.panic
                /\ Cardinality({ k \in DOMAIN sp.sub : Len(sp.sub[k]) > 0 }) <= 1
        IN /\ (out.op = "Best" /\ ~out.res.panic /\ out.res.attr \in Attributes(header))
                 => ~single(dataset, out.res.attr)
           /\ \A p \in DOMAIN tree :
                 (~tree[p].IsLeaf /\ tree[p].Attribute \in Attributes(header))
                    => ~single(subsetAt[p], tree[p].Attribute)
           /\ phase # "overflow"

\* C11: BestAttribute starts its running best below every gain ratio that
\* can occur, so a call that returns names an attribute whenever the header
\* has one (the first attribute when every gain ratio is 0), and returns ""
\* only for a header that holds the label column alone.
C11_BestNamesAnAttribute ==
    (out.op = "Best" /\ ~out.res.panic) =>
        /\ InitialBest(variant) < 0
        /\ Len(header) = 1 => out.res.attr = ""
        /\ Len(header) > 1 => out.res.attr \in Attributes(header)
        /\ (Len(header) > 1
              /\ \A i \in 1..(Len(header) - 1) : GainRatio(variant, dataset, i).num = 0)
             => out.res.attr = header[1]

\* C12 (as the code has it): for a categorical column that holds a distinct
\* value in each of two or more rows, the gain ratio is the entropy of the
\* rows over log2 of their number: the information gain is the whole
\* entropy and the split information is log2(n), not 0.  When the labels
\* differ that ratio is positive and BestAttribute returns an attribute.
C12_IdentifierColumnHasFullRatio ==
    (out.op = "Best" /\ ~out.res.panic /\ Len(dataset) >= 2) =>
        \A a \in 1..(Len(header) - 1) :
            ( /\ variant = "hacker" \/ dataset[1][a].t = "str"
              /\ \A i, j \in 1..Len(dataset) :
                    i # j => dataset[i][a] # dataset[j][a] )
            => /\ InformationGain(variant, dataset, a).val = Entropy(variant, dataset)
               /\ Entropy(variant, dataset) > 0 =>
                     /\ GainRatio(variant, dataset, a).num = Entropy(variant, dataset)
                     /\ GainRatio(variant, dataset, a).den
                            = Len(dataset) * Log2(Len(dataset))
                     /\ out.res.attr \in Attributes(header)

\* BestAttribute returned a categorical column of distinct values.
C12_Witness ==
    /\ out.op = "Best" /\ ~out.res.panic /\ Len(dataset) >= 2
    /\ \E a \in 1..(Len(header) - 1) :
          /\ out.res.attr = header[a]
          /\ variant = "hacker" \/ dataset[1][a].t = "str"
          /\ \A i, j \in 1..Len(dataset) : i # j => dataset[i][a] # dataset[j][a]
          /\ Entropy(variant, dataset) > 0

\* C12 (as stated): a column that holds a distinct value in each of two or
\* more rows of differing labels has gain ratio 0 and is never the
\* attribute BestAttribute returns.
C12_IdentifierColumnNeverChosen ==
    (out.op = "Best" /\ ~out.res.panic /\ Len(dataset) >= 2
       /\ Entropy(variant, dataset) > 0) =>
        \A a \in 1..(Len(header) - 1) :
            (\A i, j \in 1..Len(dataset) : i # j => dataset[i][a] # dataset[j][a])
            => /\ GainRatio(variant, dataset, a).num = 0
               /\ out.res.attr # header[a]

\* C13 (as the code has it): for the column [1, 2, 3, 10] with the labels
\* [A, A, B, B] the midpoint search of src/hacker/main.go returns 2.5, the
\* midpoint of 2 and 3, which puts A, A on the left and B, B on the right
\* (weighted entropy 0); the median rule of hacker2 and part_000 returns 3,
\* which puts A, A, B on the left and B on the right (weighted entropy
\* above 0).
C13_ScenarioThreshold ==
    LET rows == LoadCsv(variant, << <<"1", "A">>, <<"2", "A">>,
                                    <<"3", "B">>, <<"10", "B">> >>)
    IN (out.op \in {"Midpoint", "Threshold"} /\ out.rows = rows) =>
         IF out.op = "Midpoint"
         THEN /\ out.t2 = 5
              /\ ThresholdSides(rows, 1, out.t2).left = <<rows[1], rows[2]>>
              /\ ThresholdSides(rows, 1, out.t2).right = <<rows[3], rows[4]>>
              /\ Entropy(variant, ThresholdSides(rows, 1, out.t2).left)
                   + Entropy(variant, ThresholdSides(rows, 1, out.t2).right) = 0
         ELSE /\ ~out.panic
              /\ out.threshold = 3
              /\ out.left = <<rows[1], rows[2], rows[3]>>
              /\ out.right = <<rows[4]>>
              /\ Entropy(variant, out.left) + Entropy(variant, out.right) > 0

\* The midpoint search ran on the scenario and returned 2.5.
C13_Witness ==
    /\ out.op = "Midpoint"
    /\ out.rows = LoadCsv(variant, << <<"1", "A">>, <<"2", "A">>,
                                      <<"3", "B">>, <<"10", "B">> >>)
    /\ out.t2 = 5

\* C13 (as stated): for the column [1, 2, 3, 10] with the labels
\* [A, A, B, B] the threshold returned lies between 3 and 10 and its two
\* subsets have weighted entropy 0.
C13_ThresholdBetween3And10 ==
    LET rows == LoadCsv(variant, << <<"1", "A">>, <<"2", "A">>,
                                    <<"3", "B">>, <<"10", "B">> >>)
        t2   == IF out.op = "Midpoint" THEN out.t2 ELSE 2 * out.threshold
    IN (out.op \in {"Midpoint", "Threshold"} /\ out.rows = rows) =>
         /\ 6 <= t2 /\ t2 <= 20
         /\ Entropy(variant, ThresholdSides(rows, 1, t2).left)
              + Entropy(variant, ThresholdSides(rows, 1, t2).right) = 0

\* C14: when the column holds two or more numbers, the threshold returned
\* is the midpoint of two adjacent sorted values whose information gain no
\* other midpoint exceeds, and the first such midpoint in sorted order.
C14_FirstBestMidpoint ==
    (/\ out.op \in {"Midpoint", "Threshold"}
     /\ out.op = "Threshold" => ~out.panic
     /\ Len(SortedValues(out.rows, 1)) >= 2) =>
        LET values == SortedValues(out.rows, 1)
            t2     == IF out.op = "Midpoint" THEN out.t2 ELSE 2 * out.threshold
        IN \E i \in 1..(Len(values) - 1) :
             /\ t2 = values[i] + values[i + 1]
             /\ \A j \in 1..(Len(values) - 1) :
                   /\ EvaluateThreshold(out.rows, 1, values[j] + values[j + 1])
                        <= EvaluateThreshold(out.rows, 1, t2)
                   /\ j < i => EvaluateThreshold(out.rows, 1, values[j] + values[j + 1])
                                 < EvaluateThreshold(out.rows, 1, t2)

\* C15: when every row holds a number or a date in the column, the two
\* subsets FindBestThreshold returns are the rows whose value (the number,
\* or the date's seconds since the epoch) is at most the threshold and the
\* rows whose value is above it, each row in exactly one of them.
C15_SubsetsPartitionAtThreshold ==
    (/\ out.op = "Threshold"
     /\ Len(out.rows) >= 1
     /\ \A i \in 1..Len(out.rows) : out.rows[i][1].t \in {"num", "time"}) =>
        /\ ~out.panic
        /\ out.left = RowsWhere(out.rows,
               { i \in 1..Len(out.rows) : out.rows[i][1].n <= out.threshold })
        /\ out.right = RowsWhere(out.rows,
               { i \in 1..Len(out.rows) : out.rows[i][1].n > out.threshold })
        /\ Len(out.left) + Len(out.right) = Len(out.rows)

\* C16: when FindBestThreshold collects no value from the rows (no rows, a
\* column of plain strings, a date column that LoadCsv turned into
\* time.Time values), it returns threshold 0 and no subsets, and does not
\* panic.
C16_NoValuesGivesSentinel ==
    (out.op = "Threshold" /\ ThresholdRows(variant, out.rows, 1) = {}) =>
        /\ ~out.panic
        /\ out.threshold = 0
        /\ out.left = <<>>
        /\ out.right = <<>>

\* C17: for an attribute name the header does not hold, InformationGain and
\* GainRatio on one or more rows return something other than what they
\* return for the attribute the header does hold.
C17_MissingAttributeTellsApart ==
    (out.op \in {"InformationGain", "GainRatio"} /\ out.a = 0 /\ Len(out.rows) >= 1) =>
        IF out.op = "InformationGain"
        THEN out.res # InformationGain(variant, out.rows, 1)
        ELSE out.res # GainRatio(variant, out.rows, 1)

\* C18: a GainRatio call that returns gives 0 whenever the information gain
\* of the same rows and attribute is 0, and gives the constant 0, with no
\* quotient formed, whenever the split information is 0 (one subset holds
\* every row, the split is empty, or there are no rows).
C18_ZeroGainOrSplitInfoGivesZero ==
    (out.op = "GainRatio" /\ ~out.res.panic) =>
        /\ InformationGain(variant, out.rows, out.a).val = 0 => out.res.num = 0
        /\ SplitInfo(out.rows, SplitAt(variant, out.rows, out.a).sub) = 0
             => (out.res.num = 0 /\ out.res.den = 1)

\* GainRatio returned 0 for rows whose information gain is positive and
\* whose split information is 0.
C18_Witness ==
    /\ out.op = "GainRatio" /\ ~out.res.panic
    /\ Len(out.rows) >= 2
    /\ InformationGain(variant, out.rows, out.a).val > 0
    /\ SplitInfo(out.rows, SplitAt(variant, out.rows, out.a).sub) = 0
    /\ out.res.num = 0

\* C19: InformationGain for an attribute of the header returns, for any rows,
\* a gain that is not negative, and returns 0 for no rows.
C19_GainNotNegative ==
    (out.op = "InformationGain" /\ out.a = 1) =>
        /\ ~out.res.panic
        /\ out.res.val >= 0
        /\ Len(out.rows) = 0 => out.res.val = 0

\* C20: Entropy returns 0 for no rows and for any rows that all carry the
\* same label.
C20_EmptyOrPureEntropyIsZero ==
    (/\ out.op = "Entropy"
     /\ \A i, j \in 1..Len(out.rows) :
           LabelCell(out.rows[i]) = LabelCell(out.rows[j])) =>
        out.val = 0

\* Entropy returned 0 for two or more rows of one label.
C20_Witness ==
    /\ out.op = "Entropy"
    /\ Len(out.rows) >= 2
    /\ \A i, j \in 1..Len(out.rows) : LabelCell(out.rows[i]) = LabelCell(out.rows[j])
    /\ out.val = 0

\* C21: CountClassOccurrences counts every row under its label, whatever
\* type LoadCsv detected for the label column: the counts add up to the
\* number of rows.
C21_CountsSumToRowCount ==
    out.op = "Counts" =>
        SumOver(DOMAIN out.counts, out.counts) = Len(out.rows)

C23_BadInvocationExitsNonZero ==
    (/\ out.op = "main"
     /\ \/ out.c \notin {"train", "predict"}
        \/ out.i = "" \/ out.o = ""
        \/ out.c = "train" /\ out.t = ""
        \/ out.c = "predict" /\ out.m = "") =>
        /\ out.res.printed \in {"Usage: train", "Usage: predict", "Invalid command"}
        /\ out.res.exit # 0
        /\ ~out.res.read
        /\ ~out.res.wrote

\* C24: in a tree the builder has returned, an internal node on a numeric or
\* date column has exactly the two keys "<=T" and ">T" of one threshold T
\* (the node's Threshold where the node stores one), and an internal node
\* on a column of strings has as keys exactly the values of that column in
\* the rows that reached the node.
C24_BranchKeysMatchSplit ==
    phase = "built" =>
        \A p \in DOMAIN tree :
            (~tree[p].IsLeaf /\ IndexOf(header, tree[p].Attribute) > 0
               /\ IndexOf(header, tree[p].Attribute) < Len(header)) =>
                LET a    == IndexOf(header, tree[p].Attribute)
                    rows == subsetAt[p]
                IN /\ Len(rows) > 0
                   /\ IF variant = "hacker" \/ rows[1][a].t = "str"
                      THEN tree[p].Keys = { rows[i][a].s : i \in 1..Len(rows) }
                      ELSE /\ Cardinality(tree[p].Keys) = 2
                           /\ \E T \in ThresholdValues :
                                 /\ tree[p].Keys = {LeKey(T), GtKey(T)}
                                 /\ variant = "hacker2" => tree[p].Threshold = T

\* A returned tree has a node on a numeric column and a node on a column of
\* strings.
C24_Witness ==
    /\ phase = "built"
    /\ \E p \in DOMAIN tree :
          /\ ~tree[p].IsLeaf
          /\ IndexOf(header, tree[p].Attribute) > 0
          /\ subsetAt[p][1][IndexOf(header, tree[p].Attribute)].t = "num"
    /\ \E p \in DOMAIN tree :
          /\ ~tree[p].IsLeaf
          /\ IndexOf(header, tree[p].Attribute) > 0
          /\ subsetAt[p][1][IndexOf(header, tree[p].Attribute)].t = "str"

\* C25: the builder never makes a recursive call on an empty subset, and
\* never fails on one: a branch key whose subset is empty gets a leaf with
\* a majority label of the rows of the node it hangs from.
C25_EmptySubsetGetsParentMajority ==
    /\ \A k \in 1..Len(stack) : Len(stack[k].rows) > 0
    /\ \A p \in DOMAIN tree :
          (p # <<>> /\ subsetAt[p] = <<>>) =>
              /\ tree[p].IsLeaf
              /\ tree[p].Class \in MostCommon(variant, subsetAt[SubSeq(p, 1, Len(p) - 1)])

\* C26: a leaf made for rows of more than one label carries, among the
\* labels of highest count, the one that comes first in the rows' order, so
\* that every build of the same rows gives the leaf the same Class.
C26_MajorityTieIsFirstSeen ==
    \A p \in DOMAIN tree :
        (tree[p].IsLeaf /\ Cardinality(Classes(variant, subsetAt[p])) > 1) =>
            LET rows == subsetAt[p]
                top  == { i \in Counted(variant, rows) :
                            LabelText(LabelCell(rows[i])) \in MostCommon(variant, rows) }
            IN \E i \in top :
                 /\ \A j \in top : i <= j
                 /\ tree[p].Class = LabelText(LabelCell(rows[i]))

\* C27: for the tree built and a record, Predict has one possible result,
\* also when FindMostCommonClass finds classes with equal votes.
C27_PredictHasOneResult ==
    out.op = "Predict" =>
        Cardinality(Predict(variant, tree, <<>>, out.rec)) = 1

\* C28: when no two rows of the training file agree on every attribute and
\* differ in the label, Predict on the tree built from the file returns,
\* for each row of the file, that row's label.
C28_TrainingRowsPredictedRight ==
    (/\ out.op = "PredictRow"
     /\ \A i, j \in 1..Len(dataset) :
           (\A c \in 1..(Len(header) - 1) : dataset[i][c] = dataset[j][c])
              => LabelCell(dataset[i]) = LabelCell(dataset[j])) =>
        out.result = LabelText(LabelCell(out.row))

\* A row was predicted on a tree with a node below the root, built from
\* rows of both labels.
C28_Witness ==
    /\ out.op = "PredictRow"
    /\ \A i, j \in 1..Len(dataset) :
          (\A c \in 1..(Len(header) - 1) : dataset[i][c] = dataset[j][c])
             => LabelCell(dataset[i]) = LabelCell(dataset[j])
    /\ \E p \in DOMAIN tree : Len(p) = 2
    /\ out.result = LabelText(LabelCell(out.row))

\* C29: in a tree BuildDecisionTree (hacker2, hacker) built from rows with
\* string labels, every internal node names a column of the header other
\* than the label and has a child, and every leaf has no children and a
\* Class that is a label of the rows that reached it.
C29_TreeIsWellFormed ==
    (/\ phase = "built"
     /\ variant # "part000"
     /\ \A i \in 1..Len(dataset) : LabelCell(dataset[i]).t = "str") =>
        \A p \in DOMAIN tree :
            IF tree[p].IsLeaf
            THEN /\ tree[p].Keys = {}
                 /\ tree[p].Class \in Classes(variant, subsetAt[p])
            ELSE /\ tree[p].Attribute \in Attributes(header)
                 /\ tree[p].Keys # {}
                 /\ \A k \in tree[p].Keys : Append(p, k) \in DOMAIN tree

\* BuildDecisionTree has returned a tree with an internal root and a leaf
\* below it.
C29_Witness ==
    /\ phase = "built"
    /\ variant = "hacker2"
    /\ \A i \in 1..Len(dataset) : LabelCell(dataset[i]).t = "str"
    /\ ~tree[<<>>].IsLeaf
    /\ \E p \in DOMAIN tree : p # <<>> /\ tree[p].IsLeaf

\* C30: whatever keys and values the record holds, Predict on a built tree
\* returns "Unknown" or the Class of a leaf of the tree, and never the
\* empty string: for the call made and for every result the call can have.
C30_PredictReturnsLeafClassOrUnknown ==
    out.op = "Predict" =>
        /\ out.result # ""
        /\ Predict(variant, tree, <<>>, out.rec)
              \subseteq {"Unknown"} \cup { tree[p].Class : p \in { q \in DOMAIN tree : tree[q].IsLeaf } }
        /\ "" \notin Predict(variant, tree, <<>>, out.rec)

====
